---- MODULE Spec2Model ----
(***************************************************************************)
(* Model of consumers/consumer_sahoward.py: a SQLite event log             *)
(* (table streamed_messages) with init_db, insert_message, delete_message, *)
(* get_average_sentiment_by_author, and the main() test driver.            *)
(*                                                                         *)
(* Sentiments are integers in hundredths (87 stands for 0.87), so that the *)
(* mean of a group is the exact rational Total/Count and the two-decimal   *)
(* formatting of the report is a rounding to an integer.                   *)
(***************************************************************************)
EXTENDS Integers, Sequences, FiniteSets, TLC

\* ---------------------------------------------------------------- bounds
\* Largest id the model lets AUTOINCREMENT hand out.
MaxId == 4

\* ---------------------------------------------------------------- inputs
Fields ==
  {"message", "author", "timestamp", "category", "sentiment",
   "keyword_mentioned", "message_length"}

\* Author identifiers in ascending (string) order.
AuthorOrder == <<"Alice", "Bob", "Charlie">>

Authors == {"Alice", "Bob"}

Sentiments == {25, 50}

WellFormed(a, s) ==
  [message |-> "text", author |-> a, timestamp |-> "ts", category |-> "cat",
   sentiment |-> s, keyword_mentioned |-> "kw", message_length |-> 4]

\* A dict without key f.
Without(m, f) == [k \in (DOMAIN m) \ {f} |-> m[k]]

ValidMessages == {WellFormed(a, s) : a \in Authors, s \in Sentiments}

MalformedMessages == {Without(WellFormed("Alice", 25), f) : f \in Fields}

Messages == ValidMessages \cup MalformedMessages

\* The four dicts of main()'s test_messages, in list order.
test_messages ==
  << [message |-> "meme", author |-> "Charlie", timestamp |-> "14:35:20",
      category |-> "humor", sentiment |-> 87, keyword_mentioned |-> "meme",
      message_length |-> 42],
     [message |-> "confusing", author |-> "Alice", timestamp |-> "14:36:00",
      category |-> "tech", sentiment |-> 25, keyword_mentioned |-> "Python",
      message_length |-> 30],
     [message |-> "movie", author |-> "Charlie", timestamp |-> "14:37:00",
      category |-> "entertainment", sentiment |-> 75,
      keyword_mentioned |-> "movie", message_length |-> 34],
     [message |-> "recipe", author |-> "Alice", timestamp |-> "14:38:00",
      category |-> "food", sentiment |-> 95, keyword_mentioned |-> "recipe",
      message_length |-> 30] >>

\* Points at which a call can meet a storage error.
InitFaults == {"none", "makedirs", "connect", "drop", "create"}
WriteFaults == {"none", "connect", "execute", "commit"}
ReadFaults == {"none", "connect", "execute"}

\* ----------------------------------------------------------------- state
VARIABLES
  tableExists,  \* streamed_messages is present in the database file
  rows,         \* the rows of streamed_messages
  seq,          \* sqlite_sequence entry of the table (0: no entry)
  maxAssigned,  \* history: largest id any insert was ever given
  last,         \* outcome of the most recent call, as the caller/log sees it
  pc,           \* main(): next statement
  idx,          \* main(): index of the next element of test_messages
  initFailed    \* main(): init_db logged an error

dbVars == <<tableExists, rows, seq>>
mainVars == <<pc, idx, initFailed>>
vars == <<tableExists, rows, seq, maxAssigned, last, pc, idx, initFailed>>

\* --------------------------------------------------------------- helpers
Max(a, b) == IF a >= b THEN a ELSE b

Abs(x) == IF x >= 0 THEN x ELSE -x

MaxRowId(R) == IF R = {} THEN 0 ELSE CHOOSE n \in {r.id : r \in R} : \A r \in R : r.id <= n

\* Variant: `except sqlite3.Error`, which lets a KeyError through.
Caught_SqliteErrorOnly(exc) == exc \in {"OperationalError"}

\* `except Exception as e` catches every exception the bodies can raise.
Caught(exc) == exc \in {"OSError", "OperationalError", "KeyError", "TypeError"}

Outcome(op, exc, out) ==
  [op |-> op, ok |-> exc = "none", exc |-> exc,
   raised |-> (exc # "none" /\ ~Caught(exc)), out |-> out]

\* id INTEGER PRIMARY KEY AUTOINCREMENT: one more than the largest id the
\* table has ever held (sqlite_sequence) or holds now.
NextId == Max(seq, MaxRowId(rows)) + 1

\* Variant: two values of the VALUES tuple in each other's place.
NewRow_SwappedColumns(id, m) ==
  [id |-> id, message |-> m["message"], author |-> m["author"],
   timestamp |-> m["category"], category |-> m["timestamp"],
   sentiment |-> m["sentiment"], keyword_mentioned |-> m["keyword_mentioned"],
   message_length |-> m["message_length"]]

\* The row INSERT builds from the seven looked-up values.
NewRow(id, m) ==
  [id |-> id, message |-> m["message"], author |-> m["author"],
   timestamp |-> m["timestamp"], category |-> m["category"],
   sentiment |-> m["sentiment"], keyword_mentioned |-> m["keyword_mentioned"],
   message_length |-> m["message_length"]]

\* ------------------------------------------------------------------ init
Init ==
  /\ tableExists = FALSE
  /\ rows = {}
  /\ seq = 0
  /\ maxAssigned = 0
  /\ last = Outcome("start", "none", <<>>)
  /\ pc = "init"
  /\ idx = 1
  /\ initFailed = FALSE

\* --------------------------------------------------------------- init_db
\* DROP TABLE IF EXISTS and CREATE TABLE are DDL: sqlite3 runs them outside
\* any transaction, so each takes effect as soon as it has executed.
init_db(fault) ==
  /\ IF fault \in {"makedirs", "connect", "drop"}
       THEN UNCHANGED dbVars
       ELSE /\ rows' = {}
            /\ seq' = 0
            /\ tableExists' = (fault = "none")
  /\ last' = Outcome("init_db",
                     IF fault = "none" THEN "none"
                     ELSE IF fault = "makedirs" THEN "OSError"
                     ELSE "OperationalError", <<>>)
  /\ UNCHANGED maxAssigned

\* -------------------------------------------------------- insert_message
\* connect, then the seven message[...] lookups (KeyError on a missing key),
\* then INSERT, then commit; any exception leaves the `with` block, which
\* rolls the open transaction back, and is logged by the except clause.
insert_exc(m, fault) ==
  IF fault = "connect" THEN "OperationalError"
  ELSE IF ~(Fields \subseteq DOMAIN m) THEN "KeyError"
  ELSE IF ~tableExists \/ fault \in {"execute", "commit"} THEN "OperationalError"
  ELSE "none"

\* Variant: a failed commit leaves the inserted row behind (no rollback).
insert_message_NoRollback(m, fault) ==
  LET exc == insert_exc(m, fault) IN
  /\ last' = Outcome("insert_message", exc, <<>>)
  /\ exc = "none" => NextId <= MaxId
  /\ IF exc = "none" \/ (fault = "commit" /\ tableExists /\ Fields \subseteq DOMAIN m
                          /\ NextId <= MaxId)
       THEN /\ rows' = rows \cup {NewRow(NextId, m)}
            /\ seq' = NextId
            /\ maxAssigned' = Max(maxAssigned, NextId)
            /\ UNCHANGED tableExists
       ELSE UNCHANGED <<dbVars, maxAssigned>>

insert_message(m, fault) ==
  LET exc == insert_exc(m, fault) IN
  /\ last' = Outcome("insert_message", exc, <<>>)
  /\ exc = "none" => NextId <= MaxId
  /\ IF exc = "none"
       THEN /\ rows' = rows \cup {NewRow(NextId, m)}
            /\ seq' = NextId
            /\ maxAssigned' = Max(maxAssigned, NextId)
            /\ UNCHANGED tableExists
       ELSE UNCHANGED <<dbVars, maxAssigned>>

\* -------------------------------------------------------- delete_message
delete_exc(fault) ==
  IF fault = "connect" THEN "OperationalError"
  ELSE IF ~tableExists \/ fault \in {"execute", "commit"} THEN "OperationalError"
  ELSE "none"

\* Variant: WHERE id <= ?
delete_message_UpTo(message_id, fault) ==
  LET exc == delete_exc(fault) IN
  /\ last' = Outcome("delete_message", exc, <<>>)
  /\ IF exc = "none"
       THEN rows' = {r \in rows : r.id > message_id}
       ELSE UNCHANGED rows
  /\ UNCHANGED <<tableExists, seq, maxAssigned>>

\* Variant: DELETE without its WHERE clause.
delete_message_NoWhere(message_id, fault) ==
  LET exc == delete_exc(fault) IN
  /\ last' = Outcome("delete_message", exc, <<>>)
  /\ IF exc = "none"
       THEN rows' = {}
       ELSE UNCHANGED rows
  /\ UNCHANGED <<tableExists, seq, maxAssigned>>

\* DELETE FROM streamed_messages WHERE id = ?
delete_message(message_id, fault) ==
  LET exc == delete_exc(fault) IN
  /\ last' = Outcome("delete_message", exc, <<>>)
  /\ IF exc = "none"
       THEN rows' = {r \in rows : r.id # message_id}
       ELSE UNCHANGED rows
  /\ UNCHANGED <<tableExists, seq, maxAssigned>>

\* --------------------------------------- get_average_sentiment_by_author
\* GROUP BY author
GroupKeys(R) == {r.author : r \in R}

Group(a, R) == {r \in R : r.author = a}

RECURSIVE SumSentiment(_)
SumSentiment(G) ==
  IF G = {} THEN 0
  ELSE LET r == CHOOSE x \in G : TRUE IN r.sentiment + SumSentiment(G \ {r})

\* Variant: the sum of the group over the number of rows of the table.
Avg_OverAllRows(a, R) == <<SumSentiment(Group(a, R)), Cardinality(R)>>

\* AVG(sentiment) of a group, as the exact fraction <<numerator, denominator>>.
Avg(a, R) == <<SumSentiment(Group(a, R)), Cardinality(Group(a, R))>>

\* p >= q for fractions with positive denominators
FracGeq(p, q) == p[1] * q[2] >= q[1] * p[2]

\* ORDER BY average_sentiment DESC: every arrangement of the groups that is
\* non-increasing in the average; SQL leaves the order of equal keys open.
QueryResults(R) ==
  LET n == Cardinality(GroupKeys(R)) IN
  {q \in [1..n -> GroupKeys(R)] :
     /\ \A j, k \in 1..n : j # k => q[j] # q[k]
     /\ \A j, k \in 1..n : j < k => FracGeq(Avg(q[j], R), Avg(q[k], R))}

\* f"{avg_sentiment:.2f}": the nearest hundredth.  A value exactly halfway
\* goes to whichever side its binary float lies ("down" or "up").
Format2(avg, side) ==
  IF side = "down" THEN (2 * avg[1] + avg[2] - 1) \div (2 * avg[2])
  ELSE (2 * avg[1] + avg[2]) \div (2 * avg[2])

\* The lines logged for a query result.
ReportLines(R) ==
  {[k \in 1..Len(q) |-> [author |-> q[k], avg |-> Format2(Avg(q[k], R), side[q[k]])]] :
     q \in QueryResults(R), side \in [GroupKeys(R) -> {"down", "up"}]}

report_exc(fault) ==
  IF fault = "connect" THEN "OperationalError"
  ELSE IF ~tableExists \/ fault = "execute" THEN "OperationalError"
  ELSE "none"

get_average_sentiment_by_author(fault) ==
  LET exc == report_exc(fault) IN
  /\ \E out \in (IF exc = "none" THEN ReportLines(rows) ELSE {<<>>}) :
       last' = Outcome("get_average_sentiment_by_author", exc, out)
  /\ UNCHANGED <<dbVars, maxAssigned>>

\* ------------------------------------------- the operations, in any order
InitDb == \E fault \in InitFaults : init_db(fault) /\ UNCHANGED mainVars

InsertMessage ==
  \E m \in Messages, fault \in WriteFaults :
    insert_message(m, fault) /\ UNCHANGED mainVars

DeleteMessage ==
  \E message_id \in 0..MaxId, fault \in WriteFaults :
    delete_message(message_id, fault) /\ UNCHANGED mainVars

Report ==
  \E fault \in ReadFaults :
    get_average_sentiment_by_author(fault) /\ UNCHANGED mainVars

Next == InitDb \/ InsertMessage \/ DeleteMessage \/ Report

Spec == Init /\ [][Next]_vars

TypeOK ==
  /\ tableExists \in BOOLEAN
  /\ seq \in 0..MaxId
  /\ maxAssigned \in 0..MaxId
  /\ \A r \in rows : r.id \in 1..MaxId
  /\ last.raised \in BOOLEAN

\* ---------------------------------------------------------------- main()
\* An exception that leaves a call unwinds main(); otherwise the next
\* statement runs.
Advance(to) == IF last'.raised THEN "crashed" ELSE to

\* init_db(TEST_DB_PATH); logger.info("Initialized database file ...")
MainInitDb ==
  /\ pc = "init"
  /\ \E fault \in InitFaults : init_db(fault)
  /\ initFailed' = ~last'.ok
  /\ pc' = Advance("insert")
  /\ UNCHANGED idx

\* for msg in test_messages: insert_message(msg, TEST_DB_PATH)
MainInsert ==
  /\ pc = "insert"
  /\ \E fault \in WriteFaults : insert_message(test_messages[idx], fault)
  /\ idx' = idx + 1
  /\ pc' = Advance(IF idx = Len(test_messages) THEN "report" ELSE "insert")
  /\ UNCHANGED initFailed

\* get_average_sentiment_by_author(TEST_DB_PATH)
MainReport ==
  /\ pc = "report"
  /\ \E fault \in ReadFaults : get_average_sentiment_by_author(fault)
  /\ pc' = Advance("cleanup")
  /\ UNCHANGED <<idx, initFailed>>

\* DELETE FROM streamed_messages WHERE author IN ('Charlie', 'Alice'),
\* inside main()'s own try/except.
MainCleanup ==
  /\ pc = "cleanup"
  /\ \E fault \in WriteFaults :
       LET exc == delete_exc(fault) IN
       /\ IF exc = "none"
            THEN rows' = {r \in rows : r.author \notin {"Charlie", "Alice"}}
            ELSE UNCHANGED rows
       /\ last' = Outcome("cleanup", exc, <<>>)
  /\ pc' = Advance("done")
  /\ UNCHANGED <<tableExists, seq, maxAssigned, idx, initFailed>>

\* if __name__ == "__main__": main() -- the script is run again on the same
\* database file.
MainRerun ==
  /\ pc = "done"
  /\ pc' = "init"
  /\ idx' = 1
  /\ initFailed' = FALSE
  /\ UNCHANGED <<dbVars, maxAssigned, last>>

NextMain == MainInitDb \/ MainInsert \/ MainReport \/ MainCleanup \/ MainRerun

SpecMain == Init /\ [][NextMain]_vars

\* ================================================================ claims
\* What the claims speak of, stated without the operators of the model.
EventsOf(a) == {r \in rows : r.author = a}

RECURSIVE SentimentUpTo(_, _)
SentimentUpTo(a, n) ==
  IF n = 0 THEN 0
  ELSE SentimentUpTo(a, n - 1)
       + (IF \E r \in EventsOf(a) : r.id = n
            THEN (CHOOSE r \in EventsOf(a) : r.id = n).sentiment ELSE 0)

TotalOf(a) == SentimentUpTo(a, MaxId + 1)
CountOf(a) == Cardinality(EventsOf(a))

AuthorRank(a) == CHOOSE k \in 1..Len(AuthorOrder) : AuthorOrder[k] = a

Reported == last.op = "get_average_sentiment_by_author" /\ last.ok

\* The report names exactly the authors with an event in the log, once each.
ReportsTheAuthors ==
  /\ {last.out[k].author : k \in 1..Len(last.out)} = {r.author : r \in rows}
  /\ \A j, k \in 1..Len(last.out) :
       j # k => last.out[j].author # last.out[k].author

\* The values the report can show for author a ({} when a is not listed).
ReportedFor(a, R) ==
  IF a \in GroupKeys(R)
    THEN {Format2(Avg(a, R), side) : side \in {"down", "up"}}
    ELSE {}

\* C1 (as stated): init_db on a store leaves every existing row unchanged
\* and does not fail.
C1_InitDbKeepsRows ==
  [][(\E fault \in InitFaults : init_db(fault))
       => (rows' = rows /\ ~last'.raised)]_vars

\* C2 (as stated): the report lists exactly the authors with an event in the
\* log and shows for each the exact mean of that author's sentiments.
C2_ReportExactMean ==
  Reported =>
    /\ ReportsTheAuthors
    /\ \A k \in 1..Len(last.out) :
         last.out[k].avg * CountOf(last.out[k].author) = TotalOf(last.out[k].author)

\* C2 (amended): the report lists exactly the authors with an event in the
\* log (none when it is empty) and shows for each the mean of that author's
\* sentiments rounded to two decimals, i.e. a hundredth at distance at most
\* one half of a hundredth from the exact mean.
C2_ReportRoundedMean ==
  Reported =>
    /\ ReportsTheAuthors
    /\ \A k \in 1..Len(last.out) :
         LET a == last.out[k].author IN
         /\ CountOf(a) >= 1
         /\ 2 * Abs(last.out[k].avg * CountOf(a) - TotalOf(a)) <= CountOf(a)

C2_Witness ==
  /\ Reported
  /\ Len(last.out) = 2
  /\ \E k \in 1..2 :
       /\ CountOf(last.out[k].author) >= 2
       /\ last.out[k].avg * CountOf(last.out[k].author) # TotalOf(last.out[k].author)

\* C3 (as stated): the report is in descending order of average, and
\* authors with equal averages appear in ascending order of author.
C3_ReportOrder ==
  Reported =>
    \A j, k \in 1..Len(last.out) :
      j < k =>
        LET a == last.out[j].author
            b == last.out[k].author IN
        \/ TotalOf(a) * CountOf(b) > TotalOf(b) * CountOf(a)
        \/ /\ TotalOf(a) * CountOf(b) = TotalOf(b) * CountOf(a)
           /\ AuthorRank(a) < AuthorRank(b)

\* C4 (as stated): every id an insert assigns is greater than every id
\* assigned before, over the whole history of the store.
C4_IdsIncrease ==
  [][\A r \in rows' \ rows : r.id > maxAssigned]_vars

\* C5: insert_message with a message that lacks a required field adds no
\* row, leaves rows and the next id unchanged, and returns to the caller.
C5_MalformedRejected ==
  [][last'.op = "insert_message" =>
       \A m \in MalformedMessages :
         (\E fault \in WriteFaults : insert_message(m, fault)) =>
           /\ rows' = rows
           /\ tableExists' = tableExists
           /\ NextId' = NextId
           /\ ~last'.ok
           /\ ~last'.raised]_vars

C5_Witness ==
  /\ last.op = "insert_message"
  /\ last.exc = "KeyError"
  /\ rows # {}
  /\ tableExists

\* C6 (as stated): when init_db fails at startup the run stops: nothing
\* runs after it.
C6_InitFailureStopsRun ==
  initFailed => last.op = "init_db"

\* C7: inserting or deleting an event of author B leaves what is reported
\* for any other author A (its average, or its absence) unchanged.  (A call
\* that leaves the rows as they were leaves every report as it was.)
C7_AuthorIsolation ==
  [][\A a \in Authors :
       /\ (last'.op = "insert_message" /\ rows' # rows) =>
            \A m \in ValidMessages, fault \in WriteFaults :
              (m["author"] # a /\ insert_message(m, fault))
                => ReportedFor(a, rows') = ReportedFor(a, rows)
       /\ (last'.op = "delete_message" /\ rows' # rows) =>
            \A message_id \in 0..MaxId, fault \in WriteFaults :
              ((\A r \in rows : r.id = message_id => r.author # a)
                 /\ delete_message(message_id, fault))
                => ReportedFor(a, rows') = ReportedFor(a, rows)]_vars

C7_Witness ==
  /\ last.op = "insert_message"
  /\ last.ok
  /\ \A a \in Authors : CountOf(a) >= 1
  /\ \E a \in Authors : CountOf(a) >= 2

\* C8: a delete_message that meets no storage error removes the event with
\* the given id and nothing else; with no such event the log is unchanged.
C8_DeleteExactlyOne ==
  [][last'.op = "delete_message" =>
       \A message_id \in 0..MaxId :
         (tableExists /\ delete_message(message_id, "none")) =>
           /\ \A r \in rows' : r.id # message_id
           /\ \A r \in rows : r.id # message_id => r \in rows'
           /\ rows' \subseteq rows
           /\ last'.ok
           /\ ~last'.raised]_vars

C8_Witness ==
  /\ last.op = "delete_message"
  /\ last.ok
  /\ rows # {}
  /\ Cardinality(rows) < maxAssigned
  /\ seq = maxAssigned

\* C9: a successful insert_message adds exactly one row, holding the values
\* supplied, with an id above that of every row already in the log, and
\* leaves the existing rows unchanged.
C9_AppendInOrder ==
  [][(last'.op = "insert_message" /\ last'.ok) =>
       \A m \in ValidMessages :
         insert_message(m, "none") =>
           \E r \in rows' :
             /\ r \notin rows
             /\ rows' = rows \cup {r}
             /\ \A f \in Fields : r[f] = m[f]
             /\ \A q \in rows : q.id < r.id]_vars

C9_Witness ==
  /\ last.op = "insert_message"
  /\ last.ok
  /\ Cardinality(rows) >= 2
  /\ Cardinality(rows) < maxAssigned

\* C10: an insert, delete or report that meets a storage error returns to
\* the caller and leaves table, rows and next id as they were.
C10_StorageErrorHarmless ==
  [][(/\ last'.op \in {"insert_message", "delete_message",
                       "get_average_sentiment_by_author"}
      /\ last'.exc = "OperationalError")
       => /\ ~last'.raised
          /\ UNCHANGED dbVars
          /\ NextId' = NextId]_vars

C10_Witness ==
  /\ last.op = "insert_message"
  /\ last.exc = "OperationalError"
  /\ tableExists
  /\ rows # {}

====
